---- MODULE Spec2Model ----
(***************************************************************************)
(* Model of the movie-collection manager.                                  *)
(*                                                                         *)
(*   storage/movie_storage_sql.py  the per-user SQL store (users, movies)  *)
(*   movie_storage_sql.py          the legacy single-user SQL store        *)
(*   movie_api.py                  the OMDb client fetch_movie             *)
(*   movies.py                     the interactive menu program            *)
(*                                                                         *)
(* Python and SQLite values are tagged records [k, n, s]:                  *)
(*   k = "none"   None / NULL                                              *)
(*   k = "int"    an integer n                                             *)
(*   k = "real"   a float, n is its value in hundredths (8.2 is 820)       *)
(*   k = "text"   a string, s is its sequence of characters                *)
(* Titles and user names are atomic strings.  A table is the set of its    *)
(* rows: no SELECT of the program has an ORDER BY, and the hidden          *)
(* AUTOINCREMENT id of a movie row is never read back.                     *)
(***************************************************************************)
EXTENDS Integers, Sequences, FiniteSets, TLC

VARIABLES
    variant,    \* which storage module the deployment uses
    users,      \* table users(id, name UNIQUE)
    movies,     \* table movies(user_id, title, year, rating, poster, UNIQUE(user_id, title))
    legacy,     \* table movies(title UNIQUE, year, rating, poster) of the legacy module
    before,     \* the three tables as they were when the last operation started
    calls,      \* the storage calls made by the last operation, in order
    pc,         \* position of the interactive program
    active_user_id,
    active_user_name,
    op          \* what the last menu operation read, computed and printed

vars == <<variant, users, movies, legacy, before, calls, pc,
          active_user_id, active_user_name, op>>

storeVars == <<users, movies, legacy>>
appVars   == <<pc, active_user_id, active_user_name, op>>

(***************************************************************************)
(* Bounds                                                                  *)
(***************************************************************************)
\* rows the movies table may hold
MaxRows == 2
MaxSnapshot == 6

(***************************************************************************)
(* Values                                                                  *)
(***************************************************************************)
PyNone     == [k |-> "none", n |-> 0, s |-> <<>>]
PyInt(i)   == [k |-> "int",  n |-> i, s |-> <<>>]
PyFloat(h) == [k |-> "real", n |-> h, s |-> <<>>]
PyStr(cs)  == [k |-> "text", n |-> 0, s |-> cs]

DigitChars == <<"0", "1", "2", "3", "4", "5", "6", "7", "8", "9">>
IsDigit(c) == \E d \in 1..10 : DigitChars[d] = c
DigitVal(c) == (CHOOSE d \in 1..10 : DigitChars[d] = c) - 1

AllDigits(cs) == \A i \in 1..Len(cs) : IsDigit(cs[i])

RECURSIVE DigitsValue(_)
DigitsValue(cs) ==
    IF cs = <<>> THEN 0
    ELSE DigitsValue(SubSeq(cs, 1, Len(cs) - 1)) * 10 + DigitVal(cs[Len(cs)])

\* int(s) succeeds: a non-empty run of decimal digits (signs, blanks and
\* underscores are outside the alphabet of the modelled inputs)
ParsesAsInt(cs) == cs # <<>> /\ AllDigits(cs)

DotAt(cs) == {i \in 1..Len(cs) : cs[i] = "."}
IntPart(cs) ==
    IF DotAt(cs) = {} THEN cs
    ELSE SubSeq(cs, 1, (CHOOSE i \in DotAt(cs) : TRUE) - 1)
FracPart(cs) ==
    IF DotAt(cs) = {} THEN <<>>
    ELSE SubSeq(cs, (CHOOSE i \in DotAt(cs) : TRUE) + 1, Len(cs))

\* float(s) succeeds: digits with at most one point and at least one digit
\* ("8", "8.2", "8." and ".5").  The modelled inputs carry at most two
\* fractional digits, so the value is exact in hundredths.
ParsesAsFloat(cs) ==
    /\ Cardinality(DotAt(cs)) <= 1
    /\ AllDigits(IntPart(cs))
    /\ AllDigits(FracPart(cs))
    /\ Len(IntPart(cs)) + Len(FracPart(cs)) >= 1
    /\ Len(FracPart(cs)) <= 2

FloatValue(cs) ==
    DigitsValue(IntPart(cs)) * 100 +
    (IF Len(FracPart(cs)) = 0 THEN 0
     ELSE IF Len(FracPart(cs)) = 1 THEN DigitVal(FracPart(cs)[1]) * 10
     ELSE DigitsValue(FracPart(cs)))

IsNumber(v) == v.k \in {"int", "real"}

\* numeric value of an int or a float, in hundredths
Hundredths(v) == IF v.k = "int" THEN v.n * 100 ELSE v.n

\* the characters of the modelled strings in code point order
CharOrder ==
    <<"-", ".", "/",
      "0", "1", "2", "3", "4", "5", "6", "7", "8", "9",
      "A", "B", "C", "D", "E", "F", "G", "H", "I", "J", "K", "L", "M",
      "N", "O", "P", "Q", "R", "S", "T", "U", "V", "W", "X", "Y", "Z",
      "a", "b", "c", "d", "e", "f", "g", "h", "i", "j", "k", "l", "m",
      "n", "o", "p", "q", "r", "s", "t", "u", "v", "w", "x", "y", "z">>

CharCode(c) == CHOOSE i \in 1..Len(CharOrder) : CharOrder[i] = c

\* str < str: the first differing character decides, a proper prefix is smaller
StrLess(a, b) ==
    \E i \in 1..Len(b) :
        /\ \A k \in 1..(i - 1) : k <= Len(a) /\ a[k] = b[k]
        /\ \/ i = Len(a) + 1
           \/ i <= Len(a) /\ CharCode(a[i]) < CharCode(b[i])

(***************************************************************************)
(* Column type affinity of SQLite                                          *)
(***************************************************************************)
\* column declared REAL: integers and well-formed numeric text become
\* floats, any other text is stored as text
RealAffinity(v) ==
    IF v.k = "int" THEN PyFloat(v.n * 100)
    ELSE IF v.k = "text" /\ ParsesAsFloat(v.s) THEN PyFloat(FloatValue(v.s))
    ELSE v

\* column declared INTEGER: integral floats and integer text become integers
IntegerAffinity(v) ==
    IF v.k = "real" /\ v.n % 100 = 0 THEN PyInt(v.n \div 100)
    ELSE IF v.k = "text" /\ ParsesAsInt(v.s) THEN PyInt(DigitsValue(v.s))
    ELSE IF v.k = "text" /\ ParsesAsFloat(v.s) /\ FloatValue(v.s) % 100 = 0
         THEN PyInt(FloatValue(v.s) \div 100)
    ELSE IF v.k = "text" /\ ParsesAsFloat(v.s) THEN PyFloat(FloatValue(v.s))
    ELSE v

\* column declared TEXT: numbers are not among the posters the program passes
TextAffinity(v) == v

(***************************************************************************)
(* storage/movie_storage_sql.py                                            *)
(***************************************************************************)
\* outcome of a storage function: the tables after it, the exception that
\* left it ("none" when it returned) and the value it returned
Outcome(us, ms, raised, ret) ==
    [users |-> us, movies |-> ms, raised |-> raised, ret |-> ret]

HasUserName(us, name) == \E u \in us : u.name = name

list_users(us) == {<<u.id, u.name>> : u \in us}

get_user_by_name(us, name) ==
    IF HasUserName(us, name)
    THEN LET u == CHOOSE u \in us : u.name = name IN PyInt(u.id)
    ELSE PyNone

\* AUTOINCREMENT: one more than the largest id ever used; users are never deleted
NextUserId(us) == Cardinality(us) + 1

create_user(us, ms, name) ==
    IF HasUserName(us, name)
    THEN Outcome(us, ms, "IntegrityError", PyNone)
    ELSE LET us2 == us \cup {[id |-> NextUserId(us), name |-> name]}
         IN  Outcome(us2, ms, "none", get_user_by_name(us2, name))

UserRows(ms, uid) == {r \in ms : r.user_id = uid}

HasMovie(ms, uid, title) == \E r \in ms : r.user_id = uid /\ r.title = title

MovieInfo(r) == [year |-> r.year, rating |-> r.rating, poster |-> r.poster]

\* the dict comprehension over the fetched rows: title -> {year, rating, poster}
list_movies(ms, uid) ==
    [t \in {r.title : r \in UserRows(ms, uid)} |->
        MovieInfo(CHOOSE r \in UserRows(ms, uid) : r.title = t)]

MovieRow(uid, title, year, rating, poster) ==
    [user_id |-> uid, title |-> title,
     year    |-> IntegerAffinity(year),
     rating  |-> RealAffinity(rating),
     poster  |-> TextAffinity(poster)]

\* the insert without the UNIQUE (user_id, title) constraint
add_movie_not_unique(us, ms, uid, title, year, rating, poster) ==
    IF year.k = "none" \/ rating.k = "none"
    THEN Outcome(us, ms, "IntegrityError", PyNone)
    ELSE Outcome(us, ms \cup {MovieRow(uid, title, year, rating, poster)},
                 "none", PyNone)

add_movie(us, ms, uid, title, year, rating, poster) ==
    IF \/ HasMovie(ms, uid, title)                  \* UNIQUE (user_id, title)
       \/ year.k = "none" \/ rating.k = "none"      \* NOT NULL
    THEN Outcome(us, ms, "IntegrityError", PyNone)
    ELSE Outcome(us, ms \cup {MovieRow(uid, title, year, rating, poster)},
                 "none", PyNone)

delete_movie(us, ms, uid, title) ==
    Outcome(us, {r \in ms : ~(r.user_id = uid /\ r.title = title)},
            "none", PyNone)

\* the update without "user_id = :uid" in its WHERE clause
update_movie_any_user(us, ms, uid, title, rating) ==
    IF rating.k = "none" /\ \E r \in ms : r.title = title
    THEN Outcome(us, ms, "IntegrityError", PyNone)
    ELSE Outcome(us,
                 {IF r.title = title
                  THEN [r EXCEPT !.rating = RealAffinity(rating)]
                  ELSE r : r \in ms},
                 "none", PyNone)

update_movie(us, ms, uid, title, rating) ==
    IF rating.k = "none" /\ HasMovie(ms, uid, title)    \* NOT NULL
    THEN Outcome(us, ms, "IntegrityError", PyNone)
    ELSE Outcome(us,
                 {IF r.user_id = uid /\ r.title = title
                  THEN [r EXCEPT !.rating = RealAffinity(rating)]
                  ELSE r : r \in ms},
                 "none", PyNone)

(***************************************************************************)
(* movie_storage_sql.py (legacy, single user)                              *)
(***************************************************************************)
\* outcome of a legacy function: the table after it, what it raised, what
\* it returned and the message it printed
LegacyOutcome(lg, raised, ret, printed) ==
    [legacy |-> lg, raised |-> raised, ret |-> ret, printed |-> printed]

LegacyHas(lg, title) == \E r \in lg : r.title = title

legacy_list_movies(lg) ==
    [t \in {r.title : r \in lg} |-> MovieInfo(CHOOSE r \in lg : r.title = t)]

legacy_add_movie(lg, title, year, rating, poster) ==
    IF LegacyHas(lg, title) \/ year.k = "none" \/ rating.k = "none"
    THEN LegacyOutcome(lg, "none", PyNone, "Error")    \* except Exception: print
    ELSE LegacyOutcome(lg \cup {[title  |-> title,
                                 year   |-> IntegerAffinity(year),
                                 rating |-> RealAffinity(rating),
                                 poster |-> TextAffinity(poster)]},
                       "none", PyNone, "added successfully")

legacy_delete_movie(lg, title) ==
    LegacyOutcome({r \in lg : r.title # title}, "none", PyNone,
                  IF LegacyHas(lg, title) THEN "deleted successfully"
                  ELSE "not found")

legacy_update_movie(lg, title, rating) ==
    IF rating.k = "none" /\ LegacyHas(lg, title)
    THEN LegacyOutcome(lg, "IntegrityError", PyNone, "")
    ELSE LegacyOutcome({IF r.title = title
                        THEN [r EXCEPT !.rating = RealAffinity(rating)]
                        ELSE r : r \in lg},
                       "none", PyNone,
                       IF LegacyHas(lg, title) THEN "updated successfully"
                       ELSE "not found")

(***************************************************************************)
(* movie_api.py                                                            *)
(***************************************************************************)
Absent == [k |-> "absent", n |-> 0, s |-> <<>>]
NotAvailable == PyStr(<<"N", "/", "A">>)
AbsentTitle == "<absent>"

\* dict.get(key, default) on a decoded JSON object
Get(value, default) == IF value = Absent THEN default ELSE value

\* outcome of fetch_movie: the exception that left it ("none" when it
\* returned), whether it returned a dict (None otherwise) and the dict
Fetched(raised, found, data) == [raised |-> raised, found |-> found, data |-> data]

NoData == [kind |-> "none", Response |-> Absent, Title |-> AbsentTitle,
           Year |-> Absent, imdbRating |-> Absent, Poster |-> Absent]

\* requests.get raised, or raise_for_status did (status 400..599)
RequestFailed(resp) ==
    \/ resp.transport # "ok"
    \/ resp.status >= 400 /\ resp.status < 600

fetch_movie(resp) ==
    IF RequestFailed(resp) THEN Fetched("MovieAPIError", FALSE, NoData)
    ELSE IF resp.body.kind = "not_json" THEN Fetched("JSONDecodeError", FALSE, NoData)
    ELSE IF resp.body.kind # "object" THEN Fetched("AttributeError", FALSE, NoData)
    ELSE IF resp.body.Response = PyStr(<<"F", "a", "l", "s", "e">>)
         THEN Fetched("none", FALSE, NoData)
    ELSE Fetched("none", TRUE, resp.body)

(***************************************************************************)
(* movies.py: input helpers                                                *)
(***************************************************************************)
MIN_YEAR == 1900
MAX_YEAR == 2025
MIN_RATING == 0
MAX_RATING == 10

\* the loops of get_valid_int and get_valid_float return the first typed
\* line that parses and lies in the range
RECURSIVE get_valid_int(_, _, _)
get_valid_int(lines, min_value, max_value) ==
    IF /\ ParsesAsInt(Head(lines))
       /\ DigitsValue(Head(lines)) >= min_value
       /\ DigitsValue(Head(lines)) <= max_value
    THEN PyInt(DigitsValue(Head(lines)))
    ELSE get_valid_int(Tail(lines), min_value, max_value)

RECURSIVE get_valid_float(_, _, _)
get_valid_float(lines, min_value, max_value) ==
    IF /\ ParsesAsFloat(Head(lines))
       /\ FloatValue(Head(lines)) >= min_value * 100
       /\ FloatValue(Head(lines)) <= max_value * 100
    THEN PyFloat(FloatValue(Head(lines)))
    ELSE get_valid_float(Tail(lines), min_value, max_value)

\* the rating cut to one decimal instead of rounded
Truncate1(h) == h - (h % 10)

\* round(x, 1) of a float x given in hundredths: to the nearest tenth, and a
\* tie that the float holds exactly (x.25, x.75) to the even tenth.  The
\* other values ending in 5 are not exact in binary and are not among the
\* modelled inputs.
Round1(h) ==
    LET q == h \div 10
        r == h % 10
    IN  IF r < 5 THEN q * 10
        ELSE IF r > 5 THEN (q + 1) * 10
        ELSE IF q % 2 = 0 THEN q * 10 ELSE (q + 1) * 10

(***************************************************************************)
(* Records of what an operation did                                        *)
(***************************************************************************)
Call(fn, uid, name, title, year, rating, poster, raised, ret, printed) ==
    [fn |-> fn, uid |-> uid, name |-> name, title |-> title, year |-> year,
     rating |-> rating, poster |-> poster, raised |-> raised, ret |-> ret,
     printed |-> printed]

Snapshot == [users |-> users, movies |-> movies, legacy |-> legacy]


(***************************************************************************)
(* movies.py: the menu functions                                           *)
(***************************************************************************)
NoResp == [transport |-> "none", status |-> 0, body |-> NoData]

NoStats == [count |-> 0, sum |-> 0, median2 |-> 0, max_rating |-> 0,
            min_rating |-> 0, best_movies |-> {}, worst_movies |-> {}]

ReadCall(fn, uid) ==
    Call(fn, uid, "", "", PyNone, PyNone, PyNone, "none", PyNone, "")

\* what a menu function did: the tables after it, its storage calls, the
\* exception that escaped it ("none" when it returned), the message it
\* printed last, and what it read and computed on the way
Flow(us, ms, cs, exc, printed, fetch, raw_rating, result) ==
    [users |-> us, movies |-> ms, calls |-> cs, exc |-> exc,
     printed |-> printed, fetch |-> fetch, raw_rating |-> raw_rating,
     result |-> result]

Printed(ms, cs, printed) ==
    Flow(users, ms, cs, "none", printed, "", PyNone, NoStats)

Raised(ms, cs, exc) ==
    Flow(users, ms, cs, exc, "", "", PyNone, NoStats)

list_movies_menu(uid) ==
    LET ms == list_movies(movies, uid)
        cs == <<ReadCall("list_movies", uid)>>
    IN  IF DOMAIN ms = {} THEN Printed(movies, cs, "No movies in the database yet.")
        ELSE Printed(movies, cs, "movies in total")

\* add_movie from the dict of the metadata source on: the official title,
\* year, rating and poster, then the insert
add_movie_fetched(uid, title, data, cs, year_lines, rating_lines) ==
    LET api_title == IF data.Title = AbsentTitle THEN title ELSE data.Title
        year_str == Get(data.Year, PyStr(<<>>))
        year == IF ParsesAsInt(year_str.s)
                THEN PyInt(DigitsValue(year_str.s))
                ELSE get_valid_int(year_lines, MIN_YEAR, MAX_YEAR)
        rating_str == Get(data.imdbRating, NotAvailable)
        rating == IF rating_str = NotAvailable
                  THEN get_valid_float(rating_lines, MIN_RATING, MAX_RATING)
                  ELSE IF ParsesAsFloat(rating_str.s)
                  THEN PyFloat(FloatValue(rating_str.s))
                  ELSE get_valid_float(rating_lines, MIN_RATING, MAX_RATING)
        poster == Get(data.Poster, PyNone)
        poster_url == IF poster = PyNone \/ poster = PyStr(<<>>)
                         \/ poster = NotAvailable
                      THEN PyNone ELSE poster
        rounded == PyFloat(Round1(rating.n))
        o == add_movie(users, movies, uid, api_title, year, rounded, poster_url)
        cs2 == Append(cs, Call("add_movie", uid, "", api_title, year, rounded,
                               poster_url, o.raised, o.ret, ""))
    IN  IF o.raised # "none"
        THEN Flow(o.users, o.movies, cs2, o.raised, "", "data", rating, NoStats)
        ELSE Flow(o.users, o.movies, cs2, "none",
                  "added successfully from OMDb", "data", rating, NoStats)

\* the function without the return after "was not found in OMDb": data is
\* None and data.get raises
add_movie_menu_no_return(uid, title, resp, year_lines, rating_lines) ==
    LET ms == list_movies(movies, uid)
        cs == <<ReadCall("list_movies", uid)>>
        f  == fetch_movie(resp)
    IN  IF title \in DOMAIN ms
        THEN Printed(movies, cs, "is already in the database.")
        ELSE IF f.raised = "MovieAPIError"
        THEN [Printed(movies, cs, "Could not reach OMDb API.")
                EXCEPT !.fetch = "MovieAPIError"]
        ELSE IF f.raised # "none"
        THEN [Raised(movies, cs, f.raised) EXCEPT !.fetch = f.raised]
        ELSE IF ~f.found
        THEN [Raised(movies, cs, "AttributeError") EXCEPT !.fetch = "None"]
        ELSE add_movie_fetched(uid, title, f.data, cs, year_lines, rating_lines)

add_movie_menu(uid, title, resp, year_lines, rating_lines) ==
    LET ms == list_movies(movies, uid)
        cs == <<ReadCall("list_movies", uid)>>
        f  == fetch_movie(resp)
    IN  IF title \in DOMAIN ms
        THEN Printed(movies, cs, "is already in the database.")
        ELSE IF f.raised = "MovieAPIError"
        THEN [Printed(movies, cs, "Could not reach OMDb API.")
                EXCEPT !.fetch = "MovieAPIError"]
        ELSE IF f.raised # "none"
        THEN [Raised(movies, cs, f.raised) EXCEPT !.fetch = f.raised]
        ELSE IF ~f.found
        THEN [Printed(movies, cs, "was not found in OMDb.") EXCEPT !.fetch = "None"]
        ELSE add_movie_fetched(uid, title, f.data, cs, year_lines, rating_lines)

\* entry is the line that ends the prompt loop: "q", or a title the user
\* has (any other line prints "not found" and prompts again)
Cancel == "q"

delete_movie_menu(uid, entry) ==
    LET ms == list_movies(movies, uid)
        cs == <<ReadCall("list_movies", uid)>>
    IN  IF DOMAIN ms = {} THEN Printed(movies, cs, "No movies in the database yet.")
        ELSE IF entry = Cancel THEN Printed(movies, cs, "Cancelled.")
        ELSE
        LET o == delete_movie(users, movies, uid, entry)
            cs2 == Append(cs, Call("delete_movie", uid, "", entry, PyNone, PyNone,
                                   PyNone, o.raised, o.ret, ""))
        IN  Printed(o.movies, cs2, "deleted")

update_movie_menu(uid, entry, note) ==
    LET ms == list_movies(movies, uid)
        cs == <<ReadCall("list_movies", uid)>>
    IN  IF DOMAIN ms = {} THEN Printed(movies, cs, "No movies in the database yet.")
        ELSE IF entry = Cancel THEN Printed(movies, cs, "Cancelled.")
        ELSE
        LET o == update_movie(users, movies, uid, entry, PyStr(note))
            rows == o.ret
            cs2 == Append(cs, Call("update_movie", uid, "", entry, PyNone,
                                   PyStr(note), PyNone, o.raised, o.ret, ""))
        IN  IF o.raised # "none" THEN Raised(o.movies, cs2, o.raised)
            ELSE IF ~IsNumber(rows) THEN Raised(o.movies, cs2, "TypeError")  \* rows > 0
            ELSE IF Hundredths(rows) > 0
            THEN Printed(o.movies, cs2, "successfully updated with a note")
            ELSE Printed(o.movies, cs2, "could not be updated.")

RECURSIVE SumOf(_, _)
SumOf(ms, titles) ==
    IF titles = {} THEN 0
    ELSE LET t == CHOOSE t \in titles : TRUE
         IN  ms[t].rating.n + SumOf(ms, titles \ {t})

RECURSIVE SortedRatings(_, _)
SortedRatings(ms, titles) ==
    IF titles = {} THEN <<>>
    ELSE LET t == CHOOSE t \in titles :
                      \A u \in titles : ms[t].rating.n <= ms[u].rating.n
         IN  <<ms[t].rating.n>> \o SortedRatings(ms, titles \ {t})

\* twice statistics.median: the middle value, or the mean of the two middle ones
Median2(sorted) ==
    LET n == Len(sorted)
    IN  IF n % 2 = 1 THEN 2 * sorted[(n + 1) \div 2]
        ELSE sorted[n \div 2] + sorted[n \div 2 + 1]

stats(uid) ==
    LET ms == list_movies(movies, uid)
        cs == <<ReadCall("list_movies", uid)>>
        titles == DOMAIN ms
    IN  IF titles = {} THEN Printed(movies, cs, "No movies in the database yet.")
        ELSE IF \E t \in titles : ~IsNumber(ms[t].rating)
        THEN Raised(movies, cs, "TypeError")         \* statistics.mean of a str
        ELSE
        LET sorted == SortedRatings(ms, titles)
            max_rating == sorted[Len(sorted)]
            min_rating == sorted[1]
        IN  [Printed(movies, cs, "Average rating") EXCEPT !.result =
                [count |-> Cardinality(titles),
                 sum |-> SumOf(ms, titles),
                 median2 |-> Median2(sorted),
                 max_rating |-> max_rating,
                 min_rating |-> min_rating,
                 best_movies |-> {t \in titles : ms[t].rating.n = max_rating},
                 worst_movies |-> {t \in titles : ms[t].rating.n = min_rating}]]

\* the ratings a sort compares are all numbers or all strings; < between
\* a str and a float raises TypeError
Comparable(ms, titles) ==
    \/ \A t \in titles : IsNumber(ms[t].rating)
    \/ \A t \in titles : ms[t].rating.k = "text"

KeyLess(x, y) ==
    IF IsNumber(x) THEN Hundredths(x) < Hundredths(y) ELSE StrLess(x.s, y.s)

\* sorted(..., reverse=True) is stable: a title goes behind the titles whose
\* rating is not smaller and that came before it
RECURSIVE SortedDescending(_, _)
SortedDescending(ms, order) ==
    IF order = <<>> THEN <<>>
    ELSE LET front == SortedDescending(ms, SubSeq(order, 1, Len(order) - 1))
             t == order[Len(order)]
             behind == {i \in 1..Len(front) :
                           KeyLess(ms[front[i]].rating, ms[t].rating)}
             at == IF behind = {} THEN Len(front) + 1
                   ELSE CHOOSE i \in behind : \A j \in behind : i <= j
         IN  SubSeq(front, 1, at - 1) \o <<t>> \o SubSeq(front, at, Len(front))

\* order is the order in which the dict of list_movies yields its titles
sort_by_rating(uid, order) ==
    LET ms == list_movies(movies, uid)
        cs == <<ReadCall("list_movies", uid)>>
        titles == DOMAIN ms
    IN  IF titles = {} THEN Printed(movies, cs, "No movies in the database yet.")
        ELSE IF ~Comparable(ms, titles) THEN Raised(movies, cs, "TypeError")
        ELSE [Printed(movies, cs, "movies sorted by rating in descending order")
                 EXCEPT !.result = [order |-> order,
                                    sorted |-> SortedDescending(ms, order)]]

\* str.lower() on the modelled characters
LowerChar(c) ==
    LET i == CharCode(c)
    IN  IF i >= CharCode("A") /\ i <= CharCode("Z")
        THEN CharOrder[i + (CharCode("a") - CharCode("A"))]
        ELSE c

Lower(cs) == [i \in 1..Len(cs) |-> LowerChar(cs[i])]

\* needle in hay
Contains(hay, needle) ==
    \E i \in 0..(Len(hay) - Len(needle)) :
        \A k \in 1..Len(needle) : hay[i + k] = needle[k]

\* difflib.SequenceMatcher: the blocks a[i..i+k-1] = b[j..j+k-1] that lie in
\* a[alo..ahi] and b[blo..bhi]; no character is junk in strings this short
Blocks(a, b, alo, ahi, blo, bhi) ==
    {blk \in (alo..ahi) \X (blo..bhi) \X (1..(ahi - alo + 1)) :
        /\ blk[1] + blk[3] - 1 <= ahi
        /\ blk[2] + blk[3] - 1 <= bhi
        /\ \A d \in 0..(blk[3] - 1) : a[blk[1] + d] = b[blk[2] + d]}

\* the longest block, of those the one starting earliest in a, then in b
find_longest_match(a, b, alo, ahi, blo, bhi) ==
    LET bs == Blocks(a, b, alo, ahi, blo, bhi)
    IN  CHOOSE x \in bs : \A y \in bs :
            \/ x[3] > y[3]
            \/ x[3] = y[3] /\ x[1] < y[1]
            \/ x[3] = y[3] /\ x[1] = y[1] /\ x[2] <= y[2]

\* the total size of get_matching_blocks: the longest block, then the same
\* to its left and to its right
RECURSIVE Matched(_, _, _, _, _, _)
Matched(a, b, alo, ahi, blo, bhi) ==
    IF alo > ahi \/ blo > bhi \/ Blocks(a, b, alo, ahi, blo, bhi) = {}
    THEN 0
    ELSE LET m == find_longest_match(a, b, alo, ahi, blo, bhi)
         IN  m[3] + Matched(a, b, alo, m[1] - 1, blo, m[2] - 1)
                  + Matched(a, b, m[1] + m[3], ahi, m[2] + m[3], bhi)

\* ratio() of SequenceMatcher(a = x, b = word) is 2 * m / t
Score(word, x) ==
    [m |-> Matched(x, word, 1, Len(x), 1, Len(word)), t |-> Len(x) + Len(word)]

\* ratio() >= cutoff, the cutoff in tenths; quick_ratio and real_quick_ratio
\* are upper bounds of ratio and reject nothing that ratio accepts
AtLeast(sc, cutoff) == 2 * sc.m * 10 >= cutoff * sc.t

\* (score, x) < (score, y) as Python tuples
PairLess(p, q) ==
    \/ p.score.m * q.score.t < q.score.m * p.score.t
    \/ p.score.m * q.score.t = q.score.m * p.score.t /\ StrLess(p.x, q.x)

\* heapq.nlargest(n, result): the n largest pairs, the largest first
RECURSIVE nlargest(_, _)
nlargest(n, result) ==
    IF n = 0 \/ result = {} THEN <<>>
    ELSE LET top == CHOOSE p \in result : \A q \in result \ {p} : PairLess(q, p)
         IN  <<top>> \o nlargest(n - 1, result \ {top})

\* the pairs (score, x) of the possibilities whose ratio reaches the cutoff
CloseEnough(word, possibilities, cutoff) ==
    {pr \in {[score |-> Score(word, possibilities[i]), x |-> possibilities[i]] :
                i \in 1..Len(possibilities)} : AtLeast(pr.score, cutoff)}

get_close_matches_uncut(word, possibilities, n, cutoff) ==
    LET result == nlargest(Len(possibilities), CloseEnough(word, possibilities, cutoff))
    IN  [i \in 1..Len(result) |-> result[i].x]

get_close_matches(word, possibilities, n, cutoff) ==
    LET result == nlargest(n, CloseEnough(word, possibilities, cutoff))
    IN  [i \in 1..Len(result) |-> result[i].x]

Searched(printed, phase, shown) ==
    [exc |-> "none", printed |-> printed, phase |-> phase, shown |-> shown]

\* snapshot is the sequence of the titles of list_movies as the dict yields
\* them, each a sequence of characters; query is the stripped, non-empty line
\* typed at the prompt
search_movie(snapshot, query) ==
    IF snapshot = <<>>
    THEN Searched("No movies in the database yet.", "none", <<>>)
    ELSE LET matches == SelectSeq(snapshot,
                            LAMBDA movie : Contains(Lower(movie), Lower(query)))
         IN  IF matches # <<>>
             THEN Searched("matches", "substring", matches)
             ELSE LET close_matches == get_close_matches(query, snapshot, 5, 4)
                  IN  IF close_matches # <<>>
                      THEN Searched("Did you mean", "fuzzy", close_matches)
                      ELSE Searched("No matches found", "fuzzy", <<>>)

\* choice is "new" (create a profile) or "existing" (pick the listed id)
select_user(choice, uid, name) ==
    IF list_users(users) = {} \/ choice = "new"
    THEN LET o == create_user(users, movies, name)
             cs == <<ReadCall("list_users", 0),
                     Call("create_user", 0, name, "", PyNone, PyNone, PyNone,
                          o.raised, o.ret, "")>>
         IN  IF o.raised # "none"
             THEN Flow(o.users, o.movies, cs, o.raised, "", "", PyNone, NoStats)
             ELSE Flow(o.users, o.movies, cs, "none", "Welcome", "", PyNone, NoStats)
    ELSE Flow(users, movies, <<ReadCall("list_users", 0)>>, "none",
              "Welcome back", "", PyNone, NoStats)

NoOp == [kind |-> "none", title |-> "", resp |-> NoResp, fetch |-> "",
         raw_rating |-> PyNone, exc |-> "none", printed |-> "", result |-> NoStats]

(***************************************************************************)
(* Inputs                                                                  *)
(***************************************************************************)
\* TEXT compares byte by byte: the two titles are different keys
Titles == {"Heat", "heat"}
UserNames == {"ann", "bob"}

PosterUrl == <<"u">>
NoteOk == <<"o", "k">>
NoteSevenFive == <<"7", ".", "5">>

\* (year, rating, poster) as a caller of the store passes them: an integer,
\* a float and a URL or None
AddInputs == {<<PyInt(1995), PyFloat(820), PyStr(PosterUrl)>>,
              <<PyInt(2010), PyFloat(650), PyNone>>}

\* new values passed to update: a rating, or the note the menu passes
UpdateValues == {PyFloat(900), PyStr(NoteSevenFive)}

\* notes typed in the update menu
Notes == {NoteOk}

\* lines typed at the year prompt and at the rating prompt, should the
\* program ask: <<year lines, rating lines>>
TypedLines ==
    {<<<<  <<"2", "0", "1", "0">>  >>,
       <<  <<"7", ".", "1", "8">>  >>>>,
     <<<<  <<"1", "8", "5", "0">>, <<"2", "0", "1", "0">>  >>,
       <<  <<"1", "1">>, <<"7", ".", "2", "5">>  >>>>}

\* decoded bodies of the metadata source
MovieBody(title, year, rating, poster) ==
    [kind |-> "object", Response |-> PyStr(<<"T", "r", "u", "e">>),
     Title |-> title, Year |-> year, imdbRating |-> rating, Poster |-> poster]

NotFoundBody == [NoData EXCEPT !.kind = "object",
                               !.Response = PyStr(<<"F", "a", "l", "s", "e">>)]
NotJsonBody == [NoData EXCEPT !.kind = "not_json"]
ArrayBody == [NoData EXCEPT !.kind = "array"]

\* the source answers with any official title; year, rating and poster are
\* all usable, or unusable each in one of the ways the program tests for
MovieBodies ==
    {MovieBody(t, PyStr(<<"1", "9", "9", "5">>), PyStr(<<"8", ".", "2">>),
               PyStr(PosterUrl)) : t \in Titles}
    \cup {MovieBody(AbsentTitle, PyStr(<<"2", "0", "1", "1", "-">>),
                    NotAvailable, NotAvailable),
          MovieBody(AbsentTitle, Absent, PyStr(<<"x">>), PyStr(<<>>)),
          MovieBody(AbsentTitle, Absent, Absent, Absent)}

Response(transport, status, body) ==
    [transport |-> transport, status |-> status, body |-> body]

Responses ==
    {Response("ok", 200, b) :
        b \in MovieBodies \cup {NotFoundBody, NotJsonBody, ArrayBody}}
    \cup {Response("ConnectionError", 0, NoData),
          Response("Timeout", 0, NoData),
          Response("ok", 500, NotJsonBody)}

UserIds == {u.id : u \in users}

(***************************************************************************)
(* Initial state: empty tables, the program not started                    *)
(***************************************************************************)
Init ==
    /\ variant \in {"storage", "legacy"}
    /\ users = {}
    /\ movies = {}
    /\ legacy = {}
    /\ before = [users |-> {}, movies |-> {}, legacy |-> {}]
    /\ calls = <<>>
    /\ pc = "start"
    /\ active_user_id = PyNone
    /\ active_user_name = ""
    /\ op = NoOp
(***************************************************************************)
(* A caller of storage/movie_storage_sql.py                                *)
(***************************************************************************)
StoreCreateUser(name) ==
    /\ variant = "storage"
    /\ LET o == create_user(users, movies, name) IN
        /\ users' = o.users
        /\ movies' = o.movies
        /\ calls' = <<Call("create_user", 0, name, "", PyNone, PyNone, PyNone,
                           o.raised, o.ret, "")>>
    /\ before' = Snapshot
    /\ UNCHANGED <<variant, legacy, appVars>>

StoreAddMovie(uid, title, inp) ==
    /\ variant = "storage"
    /\ Cardinality(movies) < MaxRows \/ HasMovie(movies, uid, title)
    /\ LET o == add_movie(users, movies, uid, title, inp[1], inp[2], inp[3]) IN
        /\ users' = o.users
        /\ movies' = o.movies
        /\ calls' = <<Call("add_movie", uid, "", title, inp[1], inp[2], inp[3],
                           o.raised, o.ret, "")>>
    /\ before' = Snapshot
    /\ UNCHANGED <<variant, legacy, appVars>>

StoreDeleteMovie(uid, title) ==
    /\ variant = "storage"
    /\ LET o == delete_movie(users, movies, uid, title) IN
        /\ users' = o.users
        /\ movies' = o.movies
        /\ calls' = <<Call("delete_movie", uid, "", title, PyNone, PyNone, PyNone,
                           o.raised, o.ret, "")>>
    /\ before' = Snapshot
    /\ UNCHANGED <<variant, legacy, appVars>>

StoreUpdateMovie(uid, title, value) ==
    /\ variant = "storage"
    /\ LET o == update_movie(users, movies, uid, title, value) IN
        /\ users' = o.users
        /\ movies' = o.movies
        /\ calls' = <<Call("update_movie", uid, "", title, PyNone, value, PyNone,
                           o.raised, o.ret, "")>>
    /\ before' = Snapshot
    /\ UNCHANGED <<variant, legacy, appVars>>

(***************************************************************************)
(* A caller of the legacy movie_storage_sql.py                             *)
(***************************************************************************)
LegacyAddMovie(title, inp) ==
    /\ variant = "legacy"
    /\ LET o == legacy_add_movie(legacy, title, inp[1], inp[2], inp[3]) IN
        /\ legacy' = o.legacy
        /\ calls' = <<Call("legacy.add_movie", 0, "", title, inp[1], inp[2], inp[3],
                           o.raised, o.ret, o.printed)>>
    /\ before' = Snapshot
    /\ UNCHANGED <<variant, users, movies, appVars>>

LegacyDeleteMovie(title) ==
    /\ variant = "legacy"
    /\ LET o == legacy_delete_movie(legacy, title) IN
        /\ legacy' = o.legacy
        /\ calls' = <<Call("legacy.delete_movie", 0, "", title, PyNone, PyNone, PyNone,
                           o.raised, o.ret, o.printed)>>
    /\ before' = Snapshot
    /\ UNCHANGED <<variant, users, movies, appVars>>

LegacyUpdateMovie(title, value) ==
    /\ variant = "legacy"
    /\ LET o == legacy_update_movie(legacy, title, value) IN
        /\ legacy' = o.legacy
        /\ calls' = <<Call("legacy.update_movie", 0, "", title, PyNone, value, PyNone,
                           o.raised, o.ret, o.printed)>>
    /\ before' = Snapshot
    /\ UNCHANGED <<variant, users, movies, appVars>>

Next ==
    \/ \E name \in UserNames : StoreCreateUser(name)
    \/ \E uid \in UserIds, title \in Titles, inp \in AddInputs :
          StoreAddMovie(uid, title, inp)
    \/ \E uid \in UserIds, title \in Titles : StoreDeleteMovie(uid, title)
    \/ \E uid \in UserIds, title \in Titles, value \in UpdateValues :
          StoreUpdateMovie(uid, title, value)
    \/ \E title \in Titles, inp \in AddInputs : LegacyAddMovie(title, inp)
    \/ \E title \in Titles : LegacyDeleteMovie(title)
    \/ \E title \in Titles, value \in UpdateValues : LegacyUpdateMovie(title, value)

Spec == Init /\ [][Next]_vars

(***************************************************************************)
(* movies.py: main                                                         *)
(***************************************************************************)
Op(kind, title, resp, r) ==
    [kind |-> kind, title |-> title, resp |-> resp, fetch |-> r.fetch,
     raw_rating |-> r.raw_rating, exc |-> r.exc, printed |-> r.printed,
     result |-> r.result]

\* handle_choice: run the function, then return to the loop of main unless
\* an exception escaped
Handle(kind, title, resp, r) ==
    /\ Cardinality(r.movies) <= MaxRows
    /\ users' = r.users
    /\ movies' = r.movies
    /\ calls' = r.calls
    /\ before' = Snapshot
    /\ op' = Op(kind, title, resp, r)
    /\ pc' = IF r.exc = "none" THEN "menu" ELSE "crashed"
    /\ UNCHANGED <<variant, legacy>>

Main ==
    /\ pc = "start"
    /\ \E choice \in {"new", "existing"}, uid \in UserIds \cup {0}, name \in UserNames :
        /\ choice = "existing" => uid \in UserIds
        /\ choice = "new" => uid = 0
        /\ LET r == select_user(choice, uid, name)
               created == list_users(users) = {} \/ choice = "new"
           IN  /\ Handle("select_user", "", NoResp, r)
               /\ active_user_id' =
                    IF r.exc # "none" THEN active_user_id
                    ELSE IF created THEN r.calls[2].ret ELSE PyInt(uid)
               /\ active_user_name' =
                    IF r.exc # "none" THEN active_user_name
                    ELSE IF created THEN name
                    ELSE (CHOOSE u \in users : u.id = uid).name

MenuList ==
    /\ pc = "menu"
    /\ Handle("list", "", NoResp, list_movies_menu(active_user_id.n))
    /\ UNCHANGED <<active_user_id, active_user_name>>

MenuAdd(title, resp, year_lines, rating_lines) ==
    /\ pc = "menu"
    /\ Handle("add", title, resp,
              add_movie_menu(active_user_id.n, title, resp, year_lines, rating_lines))
    /\ UNCHANGED <<active_user_id, active_user_name>>

MenuDelete(entry) ==
    /\ pc = "menu"
    /\ entry = Cancel \/ entry \in DOMAIN list_movies(movies, active_user_id.n)
    /\ Handle("delete", entry, NoResp, delete_movie_menu(active_user_id.n, entry))
    /\ UNCHANGED <<active_user_id, active_user_name>>

MenuUpdate(entry, note) ==
    /\ pc = "menu"
    /\ entry = Cancel \/ entry \in DOMAIN list_movies(movies, active_user_id.n)
    /\ Handle("update", entry, NoResp, update_movie_menu(active_user_id.n, entry, note))
    /\ UNCHANGED <<active_user_id, active_user_name>>

MenuStats ==
    /\ pc = "menu"
    /\ Handle("stats", "", NoResp, stats(active_user_id.n))
    /\ UNCHANGED <<active_user_id, active_user_name>>

\* the orders in which a dict of the given titles can yield them
RECURSIVE Orders(_)
Orders(titles) ==
    IF titles = {} THEN {<<>>}
    ELSE UNION {{<<t>> \o rest : rest \in Orders(titles \ {t})} : t \in titles}

MenuSort(order) ==
    /\ pc = "menu"
    /\ Handle("sort", "", NoResp, sort_by_rating(active_user_id.n, order))
    /\ UNCHANGED <<active_user_id, active_user_name>>

\* sys.exit()
exit_program ==
    /\ pc = "menu"
    /\ pc' = "exited"
    /\ calls' = <<>>
    /\ before' = Snapshot
    /\ op' = Op("exit", "", NoResp, Printed(movies, <<>>, "Bye!"))
    /\ UNCHANGED <<variant, storeVars, active_user_id, active_user_name>>

\* the program is started again; the database file is what it was
Restart ==
    /\ pc \in {"exited", "crashed"}
    /\ pc' = "start"
    /\ active_user_id' = PyNone
    /\ active_user_name' = ""
    /\ calls' = <<>>
    /\ before' = Snapshot
    /\ op' = NoOp
    /\ UNCHANGED <<variant, storeVars>>

AppInit == Init /\ variant = "storage"

AppNext ==
    \/ Main
    \/ MenuList
    \/ \E title \in Titles, resp \in Responses, typed \in TypedLines :
          MenuAdd(title, resp, typed[1], typed[2])
    \/ \E entry \in Titles \cup {Cancel} : MenuDelete(entry)
    \/ \E entry \in Titles \cup {Cancel}, note \in Notes : MenuUpdate(entry, note)
    \/ MenuStats
    \/ \E order \in Orders(DOMAIN list_movies(movies, active_user_id.n)) :
          MenuSort(order)
    \/ exit_program
    \/ Restart

AppSpec == AppInit /\ [][AppNext]_vars

(***************************************************************************)
(* search_movie over the snapshots of a small collection                   *)
(***************************************************************************)
SearchTitles ==
    { <<"B", "a", "t">>, <<"C", "a", "t">>, <<"H", "a", "t">>, <<"M", "a", "t">>,
      <<"R", "a", "t">>, <<"S", "e", "a", "t">>, <<"T", "o", "t", "a", "l">> }

Queries ==
    { <<"a", "t">>, <<"b", "A", "T">>, <<"x", "a", "t">>, <<"X", "A", "T">> }

\* the dicts of at most n of the titles, as the sequences of their keys
RECURSIVE Snapshots(_, _)
Snapshots(titles, n) ==
    IF n = 0 \/ titles = {} THEN {<<>>}
    ELSE {<<>>} \cup UNION {{<<t>> \o rest : rest \in Snapshots(titles \ {t}, n - 1)}
                              : t \in titles}

NoSearch == Searched("", "none", <<>>)

SearchInit ==
    /\ variant = "storage"
    /\ users = {}
    /\ movies = {}
    /\ legacy = {}
    /\ before = [users |-> {}, movies |-> {}, legacy |-> {}]
    /\ calls = <<>>
    /\ pc = "menu"
    /\ active_user_id = PyNone
    /\ active_user_name = ""
    /\ op \in {[kind |-> "listed", snapshot |-> snapshot, query |-> <<>>,
                result |-> NoSearch] : snapshot \in Snapshots(SearchTitles, MaxSnapshot)}

\* one search of the snapshot that list_movies returned
MenuSearch(query) ==
    /\ pc = "menu"
    /\ op.kind = "listed"
    /\ op' = [kind |-> "search", snapshot |-> op.snapshot, query |-> query,
              result |-> search_movie(op.snapshot, query)]
    /\ UNCHANGED <<variant, storeVars, before, calls, pc,
                   active_user_id, active_user_name>>

SearchNext == \E query \in Queries : MenuSearch(query)

SearchSpec == SearchInit /\ [][SearchNext]_vars

(***************************************************************************)
(* Properties                                                              *)
(***************************************************************************)
\* the last storage call of the last operation
LastCall == calls[Len(calls)]
Called(fn) == calls # <<>> /\ LastCall.fn = fn
Invoked(fn) == \E i \in 1..Len(calls) : calls[i].fn = fn

\* C1: the store never holds two records with the same (user, title), and
\* add for a (user, title) that is already stored ends in an integrity
\* error (raised by the per-user store, reported as "Error" by the legacy
\* store) while every record is what it was before the call.
C1_DuplicateAddRejected ==
    /\ \A r1 \in movies, r2 \in movies :
          (r1.user_id = r2.user_id /\ r1.title = r2.title) => r1 = r2
    /\ \A r1 \in legacy, r2 \in legacy : r1.title = r2.title => r1 = r2
    /\ (Called("add_movie") /\ HasMovie(before.movies, LastCall.uid, LastCall.title))
          => /\ LastCall.raised = "IntegrityError"
             /\ movies = before.movies
             /\ users = before.users
    /\ (Called("legacy.add_movie") /\ LegacyHas(before.legacy, LastCall.title))
          => /\ LastCall.printed = "Error"
             /\ legacy = before.legacy

\* an add with another year for a stored (user, title) was rejected
C1_Witness ==
    /\ Called("add_movie")
    /\ LastCall.raised = "IntegrityError"
    /\ \E r \in movies :
          /\ r.user_id = LastCall.uid /\ r.title = LastCall.title
          /\ r.year # LastCall.year
          /\ r \in before.movies

\* C2: every stored rating is a real number, whatever was added, updated
\* or deleted through the program.
C2_RatingsAreReal == \A r \in movies : r.rating.k = "real"

\* C3: update returns the number of records it affected, 1 when the
\* (user, title) exists and 0 when it does not, and raises nothing.
C3_UpdateReturnsCount ==
    Called("update_movie") =>
        /\ LastCall.raised = "none"
        /\ LastCall.ret =
              PyInt(IF HasMovie(before.movies, LastCall.uid, LastCall.title)
                    THEN 1 ELSE 0)

\* C4: delete of a title the user does not have returns a count of 0 and
\* changes nothing; delete of a title the user has returns a count of 1
\* and removes exactly that record, which list no longer shows.
C4_DeleteReturnsCount ==
    Called("delete_movie") =>
        LET had == HasMovie(before.movies, LastCall.uid, LastCall.title)
        IN  /\ LastCall.ret = PyInt(IF had THEN 1 ELSE 0)
            /\ ~had => movies = before.movies
            /\ had => /\ Cardinality(movies) = Cardinality(before.movies) - 1
                      /\ movies \subseteq before.movies
                      /\ LastCall.title \notin DOMAIN list_movies(movies, LastCall.uid)
            /\ users = before.users

\* C5: after the menu has added a movie, list shows for its title exactly
\* the year, rating and poster handed to the store (no poster when the
\* source gave none), and the rating handed to the store is the fetched or
\* typed rating rounded to the nearest tenth.
C5_AddListRoundTrip ==
    (op.kind = "add" /\ Called("add_movie") /\ LastCall.raised = "none") =>
        LET listed == list_movies(movies, LastCall.uid)
            given == op.resp.body.Poster
        IN  /\ ~HasMovie(before.movies, LastCall.uid, LastCall.title)
            /\ LastCall.title \in DOMAIN listed
            /\ listed[LastCall.title] = [year   |-> LastCall.year,
                                         rating |-> LastCall.rating,
                                         poster |-> LastCall.poster]
            /\ LastCall.rating.k = "real"
            /\ LastCall.rating.n % 10 = 0
            /\ LastCall.rating.n - op.raw_rating.n <= 5
            /\ op.raw_rating.n - LastCall.rating.n <= 5
            /\ LastCall.poster =
                  (IF given \in {Absent, NotAvailable, PyStr(<<>>)}
                   THEN PyNone ELSE given)

\* a typed rating that is not a whole tenth was added without a poster
C5_Witness ==
    /\ op.kind = "add"
    /\ Called("add_movie")
    /\ LastCall.raised = "none"
    /\ op.raw_rating.n % 10 # 0
    /\ LastCall.poster = PyNone
    /\ LastCall.title \in DOMAIN list_movies(movies, LastCall.uid)

\* C6: add, delete and update under one user leave the list of every other
\* user unchanged, and the list of a user shows only rows stored under that
\* user, also when two users hold the same title.
C6_UserPartition ==
    /\ (calls # <<>> /\ LastCall.fn \in {"add_movie", "delete_movie", "update_movie"})
          => \A v \in UserIds :
                v # LastCall.uid =>
                   list_movies(movies, v) = list_movies(before.movies, v)
    /\ \A u \in UserIds :
          \A t \in DOMAIN list_movies(movies, u) :
             \E r \in movies : /\ r.user_id = u
                               /\ r.title = t
                               /\ MovieInfo(r) = list_movies(movies, u)[t]

\* one user's rating of a title changed while another user holds the title
C6_Witness ==
    /\ Called("update_movie")
    /\ movies # before.movies
    /\ \E v \in UserIds : /\ v # LastCall.uid
                          /\ HasMovie(movies, v, LastCall.title)
                          /\ HasMovie(movies, LastCall.uid, LastCall.title)

\* C7: user names are pairwise distinct; creating a user under a name that
\* exists ends in an integrity error, changes neither the users nor the
\* movies, and does not end the process.
C7_DuplicateUserSurvived ==
    /\ \A u1 \in users, u2 \in users : u1.name = u2.name => u1 = u2
    /\ (Called("create_user") /\ HasUserName(before.users, LastCall.name))
          => /\ LastCall.raised = "IntegrityError"
             /\ users = before.users
             /\ movies = before.movies
             /\ pc # "crashed"

\* C8: fetch ends as a metadata record, as None (not found) or in
\* MovieAPIError; Response "False" gives None; a failed request and a body
\* that is not JSON give MovieAPIError.
C8_FetchOutcomes ==
    (op.kind = "add" /\ op.fetch # "") =>
        /\ op.fetch \in {"data", "None", "MovieAPIError"}
        /\ (~RequestFailed(op.resp) /\ op.resp.body = NotFoundBody)
              => op.fetch = "None"
        /\ (RequestFailed(op.resp) \/ op.resp.body.kind = "not_json")
              => op.fetch = "MovieAPIError"

\* C9: when the fetch of the add menu ends in MovieAPIError or in None, the
\* user is told, add of the store is not called, the tables are what they
\* were and the program is back in its menu loop.
C9_FailedFetchAbortsAdd ==
    (op.kind = "add" /\ op.fetch \in {"MovieAPIError", "None"}) =>
        /\ ~Invoked("add_movie")
        /\ movies = before.movies
        /\ users = before.users
        /\ op.exc = "none"
        /\ op.printed \in {"Could not reach OMDb API.", "was not found in OMDb."}
        /\ pc = "menu"

\* the source was unreachable while the user had movies
C9_Witness ==
    /\ op.kind = "add"
    /\ op.fetch = "MovieAPIError"
    /\ op.resp.transport = "Timeout"
    /\ movies # {}

\* C10: stats either reports that there are no movies or returns with best
\* the titles at the maximum rating and worst the titles at the minimum
\* rating; no exception escapes it.
C10_StatsNeverRaises ==
    op.kind = "stats" =>
        LET listed == list_movies(movies, active_user_id.n)
            titles == DOMAIN listed
        IN  /\ op.exc = "none"
            /\ titles = {} => op.printed = "No movies in the database yet."
            /\ titles # {} =>
                 /\ op.result.best_movies =
                       {t \in titles : \A u \in titles :
                           listed[t].rating.n >= listed[u].rating.n}
                 /\ op.result.worst_movies =
                       {t \in titles : \A u \in titles :
                           listed[t].rating.n <= listed[u].rating.n}

\* C11: search is two-phase.  When some title of the snapshot contains the
\* query, letter case ignored, exactly those titles are shown, in the order
\* of the snapshot, and the fuzzy matching is not consulted; with no such
\* title the fuzzy fallback shows at most 5 titles of the snapshot; nothing
\* is raised, an empty result included.
C11_SearchTwoPhase ==
    op.kind = "search" =>
        LET snapshot == op.snapshot
            query == op.query
            shown == op.result.shown
            SameFolded(x, y) ==
                /\ Len(x) = Len(y)
                /\ \A i \in 1..Len(x) : LowerChar(x[i]) = LowerChar(y[i])
            Holds(t) ==
                \E i \in 1..Len(t), j \in 1..Len(t) :
                    i <= j /\ SameFolded(SubSeq(t, i, j), query)
            hits == {i \in 1..Len(snapshot) : Holds(snapshot[i])}
            Pos(t) == CHOOSE i \in 1..Len(snapshot) : snapshot[i] = t
        IN  /\ op.result.exc = "none"
            /\ pc = "menu"
            /\ \A i \in 1..Len(shown) : \E k \in 1..Len(snapshot) : snapshot[k] = shown[i]
            /\ \A i \in 1..Len(shown), j \in 1..Len(shown) : i # j => shown[i] # shown[j]
            /\ hits # {} =>
                  /\ op.result.phase = "substring"
                  /\ Len(shown) = Cardinality(hits)
                  /\ \A i \in 1..Len(shown) : Pos(shown[i]) \in hits
                  /\ \A i \in 1..Len(shown), j \in 1..Len(shown) :
                        i < j => Pos(shown[i]) < Pos(shown[j])
            /\ op.result.phase = "fuzzy" => hits = {}
            /\ hits = {} => Len(shown) <= 5

\* no title contains the query, six titles are close to it, five are shown
C11_Witness ==
    /\ op.kind = "search"
    /\ op.result.phase = "fuzzy"
    /\ Len(op.result.shown) = 5
    /\ Cardinality({i \in 1..Len(op.snapshot) :
           AtLeast(Score(op.query, op.snapshot[i]), 4)}) > 5

\* C13: the add menu hands the store the official title of the metadata
\* source (the typed title when the source names none), and never calls
\* add of the store for a (user, title) that is already stored.
C13_AddOnlyNewTitles ==
    (op.kind = "add" /\ Invoked("add_movie")) =>
        /\ LastCall.title = (IF op.resp.body.Title = AbsentTitle
                             THEN op.title ELSE op.resp.body.Title)
        /\ ~HasMovie(before.movies, LastCall.uid, LastCall.title)
        /\ op.exc = "none"

\* C12: the sort menu returns with the titles of the snapshot, each once,
\* in an order in which no rating is followed by a larger one and titles of
\* equal rating keep the order of the snapshot; the tables stay as they were.
C12_SortStableDescending ==
    op.kind = "sort" =>
        LET listed == list_movies(movies, active_user_id.n)
            titles == DOMAIN listed
            order  == op.result.order
            sorted == op.result.sorted
            Pos(seq, t) == CHOOSE i \in 1..Len(seq) : seq[i] = t
        IN  /\ op.exc = "none"
            /\ movies = before.movies
            /\ users = before.users
            /\ titles # {} =>
                 /\ Len(sorted) = Cardinality(titles)
                 /\ {sorted[i] : i \in 1..Len(sorted)} = titles
                 /\ \A i \in 1..Len(sorted), j \in 1..Len(sorted) :
                       i < j =>
                          /\ listed[sorted[i]].rating.n >= listed[sorted[j]].rating.n
                          /\ listed[sorted[i]].rating.n = listed[sorted[j]].rating.n
                                => Pos(order, sorted[i]) < Pos(order, sorted[j])

====
